---- MODULE Spec2Model ----
(***************************************************************************)
(* A model of the single-asset backtesting engine: ExchangeAPI (account    *)
(* and order execution), Strategy / SmaCross (indicators and decisions),   *)
(* the helpers SMA and crossover, and Backtest (validation, the run loop   *)
(* and the result record).                                                 *)
(*                                                                         *)
(* Numbers.  Python floats are modelled by exact rationals <<n, d>> in     *)
(* lowest terms with d > 0, and the float NaN (pandas' null) by <<0, 0>>.  *)
(* Arithmetic with NaN yields NaN and every ordered comparison with NaN is *)
(* false, as in IEEE 754.  Rounding is not modelled: a statement that      *)
(* holds here holds of the floats up to rounding, except where no          *)
(* rounding operation is involved.  Prices are strictly positive, so no    *)
(* division by zero (inf) arises.                                          *)
(*                                                                         *)
(* Sequences are 1-indexed: Python's x[i] is x[i + 1] here.                *)
(***************************************************************************)
EXTENDS Integers, Sequences, FiniteSets, TLC

VARIABLES
    data,       \* Backtest._data / ExchangeAPI._data: the OHLCV frame
    cfg,        \* the constructor arguments: strategy_type, cash, commission
    broker,     \* the ExchangeAPI object (None until constructed)
    strategy,   \* the Strategy object (None until constructed)
    pc,         \* where the caller is: in Backtest.__init__, run, ...
    tick,       \* the loop variable i of Backtest.run
    results,    \* Backtest._results
    hist,       \* history (ghost): last operation, call log, price queries
    twin        \* a second, independent Backtest for two-run properties

vars == <<data, cfg, broker, strategy, pc, tick, results, hist, twin>>

-----------------------------------------------------------------------------
(* Bounds of the model *)

\* rows of constant price before the freely chosen rows of a long series
WarmLen == 98
\* most freely chosen rows at the end of a series
MaxTail == 6
\* most rows of a short series (one too short for the loop to run)
MaxShort == 2
\* most ticks of a run of a hand-written strategy
MaxUserTicks == 2
\* most buy()/sell() calls a hand-written strategy or API caller makes
MaxTrades == 3
\* most rows, at the end, in which the two series of a pair differ
MaxDiff == 2

\* most free rows at the end of each series of a pair
PairTail == 5

\* bars of the series that rises linearly
ScenarioBars == 200

\* most elements of a series handed to crossover directly
MaxSeriesLen == 3

\* the prices of the free rows; the constant rows have a price between them
PriceSet == {1, 4}

-----------------------------------------------------------------------------
(* Floats as rationals *)

NaN == <<0, 0>>

Abs(x) == IF x < 0 THEN -x ELSE x

RECURSIVE GCD(_, _)
GCD(a, b) == IF b = 0 THEN a ELSE GCD(b, a % b)

\* the rational n/d in lowest terms, d > 0
Rat(n, d) ==
    IF d = 0 THEN NaN
    ELSE LET g == GCD(Abs(n), Abs(d))
             s == IF d < 0 THEN -1 ELSE 1
         IN  <<(s * n) \div g, Abs(d) \div g>>

Num(k) == <<k, 1>>
Zero == Num(0)
One == Num(1)

isnull(x) == x[2] = 0

FAdd(x, y) ==
    IF isnull(x) \/ isnull(y) THEN NaN
    ELSE LET g == GCD(x[2], y[2])
         IN  Rat(x[1] * (y[2] \div g) + y[1] * (x[2] \div g), (x[2] \div g) * y[2])

FNeg(x) == IF isnull(x) THEN NaN ELSE <<-x[1], x[2]>>

FSub(x, y) == FAdd(x, FNeg(y))

\* cross-cancelled first, so that no intermediate exceeds the result
FMul(x, y) ==
    IF isnull(x) \/ isnull(y) THEN NaN
    ELSE LET g1 == GCD(Abs(x[1]), y[2])
             g2 == GCD(Abs(y[1]), x[2])
         IN  Rat((x[1] \div g1) * (y[1] \div g2), (x[2] \div g2) * (y[2] \div g1))

FDiv(x, y) ==
    IF isnull(x) \/ isnull(y) \/ y[1] = 0 THEN NaN
    ELSE FMul(x, Rat(y[2], y[1]))

\* x < y; false when either is NaN
FLt(x, y) ==
    /\ ~isnull(x)
    /\ ~isnull(y)
    /\ LET g == GCD(x[2], y[2])
       IN  x[1] * (y[2] \div g) < y[1] * (x[2] \div g)

FLe(x, y) == ~isnull(x) /\ ~isnull(y) /\ ~FLt(y, x)

\* x == y; false when either is NaN (NaN != NaN)
FEq(x, y) == ~isnull(x) /\ ~isnull(y) /\ x = y

-----------------------------------------------------------------------------
(* Python objects *)

None == [cls |-> "None"]

\* utils.assert_msg: raises Exception when the condition is false
assert_msg(condition) == IF condition THEN None ELSE [cls |-> "Exception"]

raises(r) == r.cls = "Exception"

-----------------------------------------------------------------------------
(* The data frame: a record of columns of one length, and the index *)

OHLC == {"Open", "High", "Low", "Close"}

len(d) == Len(d.index)

columns(d) == DOMAIN d \ {"index"}

\* n times x
Repeat(x, n) == [k \in 1..n |-> x]

\* data['Volume'] = np.nan
AddVolume(d) ==
    [c \in DOMAIN d \cup {"Volume"} |->
        IF c = "Volume" THEN Repeat(NaN, len(d)) ELSE d[c]]

\* Series.max(): the largest value, nulls skipped; null when there is none
RECURSIVE RangeMax(_, _, _)
RangeMax(col, lo, hi) ==
    IF lo > hi THEN NaN
    ELSE IF lo = hi THEN col[lo]
    ELSE LET mid == (lo + hi) \div 2
             l == RangeMax(col, lo, mid)
             r == RangeMax(col, mid + 1, hi)
         IN  IF isnull(l) THEN r
             ELSE IF isnull(r) THEN l
             ELSE IF FLt(l, r) THEN r ELSE l

max(col) == RangeMax(col, 1, Len(col))

\* Index.is_monotonic_increasing
is_monotonic_increasing(index) ==
    \A k \in 1..(Len(index) - 1) : index[k] <= index[k + 1]

\* the row numbers of an index in ascending order of its values (rows of
\* equal value in their order)
SortPerm(index) ==
    LET n == Len(index)
        rank == [r \in 1..n |->
                    1 + Cardinality({j \in 1..n : \/ index[j] < index[r]
                                                  \/ index[j] = index[r] /\ j < r})]
    IN  [k \in 1..n |-> CHOOSE r \in 1..n : rank[r] = k]

\* DataFrame.sort_index()
sort_index(d) ==
    LET perm == SortPerm(d.index)
    IN  [c \in DOMAIN d |-> [k \in 1..len(d) |-> d[c][perm[k]]]]

-----------------------------------------------------------------------------
(* utils.py *)

\* running sums and counts of the non-null values, as pandas' rolling
\* window keeps them: the result's k-th element covers values[1..lo + k - 1],
\* on top of what `before` covers
RECURSIVE Running(_, _, _, _)
Running(values, lo, hi, before) ==
    IF lo > hi THEN <<>>
    ELSE IF lo = hi
    THEN <<IF isnull(values[lo]) THEN before
           ELSE [sum |-> FAdd(before.sum, values[lo]), nobs |-> before.nobs + 1]>>
    ELSE LET mid == (lo + hi) \div 2
             left == Running(values, lo, mid, before)
         IN  left \o Running(values, mid + 1, hi, left[Len(left)])

\* SMA(values, n) = pd.Series(values).rolling(n).mean(): the mean of the last
\* n values, null while fewer than n non-null values are in the window
SMA(values, n) ==
    LET none == [sum |-> Zero, nobs |-> 0]
        acc == <<none>> \o Running(values, 1, Len(values), none)
    IN  [k \in 1..Len(values) |->
            LET lo == IF k >= n THEN acc[k - n + 1] ELSE acc[1]
                hi == acc[k + 1]
            IN  IF hi.nobs - lo.nobs >= n
                THEN FDiv(FSub(hi.sum, lo.sum), Num(hi.nobs - lo.nobs))
                ELSE NaN]

\* a crossover that looks at the last element only
crossover_now(series1, series2) ==
    FLt(series2[Len(series2)], series1[Len(series1)])

\* a crossover whose comparisons admit equality
crossover_loose(series1, series2) ==
    /\ FLe(series1[Len(series1) - 1], series2[Len(series2) - 1])
    /\ FLe(series2[Len(series2)], series1[Len(series1)])

\* series1[-2] < series2[-2] and series1[-1] > series2[-1]
crossover(series1, series2) ==
    /\ FLt(series1[Len(series1) - 1], series2[Len(series2) - 1])
    /\ FLt(series2[Len(series2)], series1[Len(series1)])

-----------------------------------------------------------------------------
(* ExchangeAPI *)

\* the ceiling on the commission rate, 0.05
MaxCommission == Rat(1, 20)

\* a constructor that checks the ceiling of the commission only
ExchangeAPI_init_no_floor(cash, commission) ==
    IF raises(assert_msg(FLt(Zero, cash))) THEN assert_msg(FALSE)
    ELSE IF raises(assert_msg(FLe(commission, MaxCommission)))
    THEN assert_msg(FALSE)
    ELSE [cls |-> "ExchangeAPI",
          inital_cash |-> cash,
          commission |-> commission,
          position |-> Zero,
          cash |-> cash,
          i |-> 0]

\* a constructor that does not check the cash
ExchangeAPI_init_any_cash(cash, commission) ==
    IF raises(assert_msg(FLe(Zero, commission) /\ FLe(commission, MaxCommission)))
    THEN assert_msg(FALSE)
    ELSE [cls |-> "ExchangeAPI",
          inital_cash |-> cash,
          commission |-> commission,
          position |-> Zero,
          cash |-> cash,
          i |-> 0]

ExchangeAPI_init(cash, commission) ==
    IF raises(assert_msg(FLt(Zero, cash))) THEN assert_msg(FALSE)
    ELSE IF raises(assert_msg(FLe(Zero, commission) /\ FLe(commission, MaxCommission)))
    THEN assert_msg(FALSE)
    ELSE [cls |-> "ExchangeAPI",
          inital_cash |-> cash,
          commission |-> commission,
          position |-> Zero,
          cash |-> cash,
          i |-> 0]

current_price(b, d) == d.Close[b.i + 1]

market_value(b, d) == FAdd(b.cash, FMul(b.position, current_price(b, d)))

\* buy() that fills the order without taking the cash
buy_keeps_cash(b, d) ==
    [b EXCEPT !.position = FDiv(FMul(b.cash, FSub(One, b.commission)), current_price(b, d))]

\* buy() that adds the commission to the order instead of taking it off
buy_adds_commission(b, d) ==
    [b EXCEPT !.position = FDiv(FMul(b.cash, FAdd(One, b.commission)), current_price(b, d)),
              !.cash = Zero]

buy(b, d) ==
    [b EXCEPT !.position = FDiv(FMul(b.cash, FSub(One, b.commission)), current_price(b, d)),
              !.cash = Zero]

\* sell() that pays the commission out instead of taking it off
sell_rebate(b, d) ==
    [b EXCEPT !.cash = FAdd(b.cash, FMul(FMul(b.position, current_price(b, d)),
                                          FAdd(One, b.commission))),
              !.position = Zero]

\* sell() that charges no commission
sell_free(b, d) ==
    [b EXCEPT !.cash = FAdd(b.cash, FMul(b.position, current_price(b, d))),
              !.position = Zero]

\* sell() that assigns the proceeds to the cash instead of adding them
sell_assigns(b, d) ==
    [b EXCEPT !.cash = FMul(FMul(b.position, current_price(b, d)),
                            FSub(One, b.commission)),
              !.position = Zero]

sell(b, d) ==
    [b EXCEPT !.cash = FAdd(b.cash, FMul(FMul(b.position, current_price(b, d)),
                                          FSub(One, b.commission))),
              !.position = Zero]

\* next() that leaves the cursor where it is
next_stale(b, t) == b

\* next() that also starts the account afresh
next_resets(b, t) == [b EXCEPT !.i = t, !.cash = b.inital_cash, !.position = Zero]

next(b, t) == [b EXCEPT !.i = t]

-----------------------------------------------------------------------------
(* Strategy and SmaCross *)

\* Strategy.__init__
Strategy_init(cls) ==
    [cls |-> cls, indicators |-> <<>>, tick |-> 0, sma1 |-> <<>>, sma2 |-> <<>>]

\* I without the check of the length
I_unchecked(s, value, d) == [s EXCEPT !.indicators = Append(@, value)]

\* Strategy.I, given the value func(*args) computed: the strategy with the
\* indicator registered, or the exception
I(s, value, d) ==
    IF raises(assert_msg(Len(value) = Len(d.Close))) THEN assert_msg(FALSE)
    ELSE [s EXCEPT !.indicators = Append(@, value)]

\* window sizes of the fast and the slow moving average
fast == 30
slow == 90

SmaCross_init(s, d) ==
    LET v1 == SMA(d.Close, fast)
        s1 == I(s, v1, d)
    IN  IF raises(s1) THEN s1
        ELSE LET v2 == SMA(d.Close, slow)
                 s2 == I([s1 EXCEPT !.sma1 = v1], v2, d)
             IN  IF raises(s2) THEN s2 ELSE [s2 EXCEPT !.sma2 = v2]

\* a slice that takes in the element at t as well, x[:t + 1]
Slice_through(x, t) == SubSeq(x, 1, IF t + 1 < Len(x) THEN t + 1 ELSE Len(x))

\* x[:t]
Slice(x, t) == SubSeq(x, 1, IF t < Len(x) THEN t ELSE Len(x))

\* a decision that reads the averages up to and including bar t + 1
SmaCross_decide_ahead(s, t) ==
    IF crossover(Slice(s.sma1, t + 2), Slice(s.sma2, t + 2)) THEN "buy"
    ELSE IF crossover(Slice(s.sma2, t + 2), Slice(s.sma1, t + 2)) THEN "sell"
    ELSE "none"

\* a decision without the branch that sells
SmaCross_decide_no_sell(s, t) ==
    IF crossover(Slice(s.sma1, t), Slice(s.sma2, t)) THEN "buy"
    ELSE "none"

\* what SmaCross.next(t) decides: "buy", "sell" or "none"
SmaCross_decide(s, t) ==
    IF crossover(Slice(s.sma1, t), Slice(s.sma2, t)) THEN "buy"
    ELSE IF crossover(Slice(s.sma2, t), Slice(s.sma1, t)) THEN "sell"
    ELSE "none"

\* SmaCross.next(t): the broker after it
SmaCross_next(s, b, d, t) ==
    LET a == SmaCross_decide(s, t)
    IN  IF a = "buy" THEN buy(b, d)
        ELSE IF a = "sell" THEN sell(b, d)
        ELSE b

-----------------------------------------------------------------------------
(* History *)

NoHist ==
    [op |-> "none",         \* the last operation executed
     calls |-> <<>>,        \* the calls Backtest.run has made, in order
     decisions |-> <<>>,    \* what SmaCross.next decided, tick by tick
     ilens |-> <<>>,        \* the lengths of the values passed to Strategy.I
     first_query |-> -1,    \* the cursor at the first price query, -1: none yet
     ntrades |-> 0,         \* the buy() and sell() calls so far
     trades |-> <<>>]       \* each of them, with the account it was called on

\* a price query at cursor i
Queried(h, i) == IF h.first_query = -1 THEN [h EXCEPT !.first_query = i] ELSE h

Call(f, t) == [f |-> f, t |-> t]

-----------------------------------------------------------------------------
(* Backtest.  A world w is one Backtest with everything it owns: the      *)
(* fields data, cfg, broker, strategy, pc, tick, results and hist.  Each  *)
(* operation maps the world before it to the world after it.              *)

StrategyClasses == {"SmaCross", "UserStrategy"}

Raise(w, op) == [w EXCEPT !.pc = "raised", !.hist.op = op]

\* Backtest.__init__.  The commission is always a number here, so that the
\* check isinstance(commission, Number) passes; data.copy(False) leaves the
\* caller's frame as it is, and so does a construction that raises.
Backtest_init(w) ==
    LET d0 == w.data
        d1 == IF "Volume" \notin columns(d0) THEN AddVolume(d0) ELSE d0
        d2 == IF ~is_monotonic_increasing(d1.index) THEN sort_index(d1) ELSE d1
        b  == ExchangeAPI_init(w.cfg.cash, w.cfg.commission)
    IN  IF raises(assert_msg(w.cfg.strategy_type \in StrategyClasses))
        THEN Raise(w, "Backtest")
        ELSE IF raises(assert_msg(w.cfg.broker_type = "ExchangeAPI"))
        THEN Raise(w, "Backtest")
        ELSE IF raises(assert_msg(
                    Cardinality(columns(d1) \cap (OHLC \cup {"Volume"})) = 5))
        THEN Raise(w, "Backtest")
        ELSE IF raises(assert_msg(~(\E c \in OHLC : isnull(max(d1[c])))))
        THEN Raise(w, "Backtest")
        ELSE IF raises(b)
        THEN Raise(w, "Backtest")
        ELSE [w EXCEPT !.data = d2,
                       !.broker = b,
                       !.strategy = Strategy_init(w.cfg.strategy_type),
                       !.results = None,
                       !.pc = "constructed",
                       !.hist.op = "Backtest"]

\* the first tick of the loop in Backtest.run
start == 100

\* Backtest.run up to the loop: strategy.init().  A hand-written strategy
\* registers one indicator, value, through Strategy.I.
run_init(w, value) ==
    LET s == IF w.strategy.cls = "SmaCross"
             THEN SmaCross_init(w.strategy, w.data)
             ELSE I(w.strategy, value, w.data)
        h == [w.hist EXCEPT !.op = "init",
                            !.calls = Append(@, Call("init", -1)),
                            !.ilens = IF w.strategy.cls # "SmaCross" THEN <<Len(value)>>
                                      ELSE IF raises(s) THEN <<>>
                                      ELSE [k \in 1..Len(s.indicators) |->
                                               Len(s.indicators[k])]]
    IN  IF raises(s)
        THEN [w EXCEPT !.pc = "raised", !.hist = h]
        ELSE [w EXCEPT !.strategy = s,
                       !.tick = start,
                       !.pc = "loop",
                       !.hist = h]

\* the loop body, first half: broker.next(i)
run_advance(w) ==
    [w EXCEPT !.broker = next(w.broker, w.tick),
              !.pc = "in_next",
              !.hist.op = "next",
              !.hist.calls = Append(@, Call("broker.next", w.tick))]

\* the history after a buy() or sell() on the account b
Traded(h, b, op) ==
    [Queried(h, b.i) EXCEPT
        !.op = op,
        !.ntrades = @ + 1,
        !.trades = Append(@, [op |-> op, i |-> b.i,
                              cash |-> b.cash, position |-> b.position])]

\* Strategy.buy, ExchangeAPI.buy
do_buy(w) ==
    [w EXCEPT !.broker = buy(w.broker, w.data),
              !.hist = Traded(w.hist, w.broker, "buy")]

\* Strategy.sell, ExchangeAPI.sell
do_sell(w) ==
    [w EXCEPT !.broker = sell(w.broker, w.data),
              !.hist = Traded(w.hist, w.broker, "sell")]

\* a loop that steps over every other tick
run_next_skips(w) ==
    [w EXCEPT !.tick = w.tick + 2,
              !.pc = "loop",
              !.hist.calls = Append(@, Call("strategy.next", w.tick))]

\* the loop body, second half: strategy.next(i) returns and i moves on
run_next_return(w) ==
    [w EXCEPT !.tick = w.tick + 1,
              !.pc = "loop",
              !.hist.calls = Append(@, Call("strategy.next", w.tick))]

\* the loop body, second half, for SmaCross: strategy.next(i) as a whole
run_next_SmaCross(w) ==
    LET a == SmaCross_decide(w.strategy, w.tick)
        h == IF a = "none" THEN [w.hist EXCEPT !.op = "pass"]
             ELSE Traded(w.hist, w.broker, a)
    IN  run_next_return(
            [w EXCEPT !.broker = SmaCross_next(w.strategy, w.broker, w.data, w.tick),
                      !.hist = [h EXCEPT !.decisions = Append(@, a)]])

\* a result whose profit is not taken relative to the initial cash
compute_result_gross(b, d) ==
    [initial |-> b.inital_cash,
     final |-> market_value(b, d),
     profit |-> market_value(b, d)]

\* Backtest._compute_result
compute_result(b, d) ==
    [initial |-> b.inital_cash,
     final |-> market_value(b, d),
     profit |-> FSub(market_value(b, d), b.inital_cash)]

\* Backtest.run after the loop
run_finish(w) ==
    [w EXCEPT !.results = compute_result(w.broker, w.data),
              !.pc = "done",
              !.hist = [Queried(w.hist, w.broker.i) EXCEPT
                            !.op = "result",
                            !.calls = Append(@, Call("_compute_result", -1))]]

-----------------------------------------------------------------------------
(* Inputs *)

Base == Num(2)

\* the price sequences of at most n rows
Tails(n) == UNION {[1..k -> {Num(p) : p \in PriceSet}] : k \in 0..n}

\* long series are a constant stretch at a base price, then free rows at
\* one of two prices around it.  With base 2 and prices 1 and 4 the moving
\* averages cross upward and become equal; with base 3 and prices 1 and 6
\* they cross both ways.
Families ==
    {[base |-> Base, prices |-> {Num(p) : p \in PriceSet}],
     [base |-> Num(3), prices |-> {Num(1), Num(6)}]}

\* the frame of a Close series: Open, High and Low as Close, no Volume,
\* the rows in chronological order
Frame(close) ==
    [index |-> [k \in 1..Len(close) |-> k],
     Open |-> close, High |-> close, Low |-> close, Close |-> close]

\* the value of column c at row r missing
WithNull(d, c, r) == [d EXCEPT ![c][r] = NaN]

\* column c absent
Without(d, c) == [x \in DOMAIN d \ {c} |-> d[x]]

\* the last two rows delivered out of chronological order
Swapped(d) ==
    LET n == len(d)
    IN  [c \in DOMAIN d |->
            [k \in 1..n |-> IF k = n THEN d[c][n - 1]
                            ELSE IF k = n - 1 THEN d[c][n]
                            ELSE d[c][k]]]

\* long series for SmaCross: a constant stretch, then free rows or more
\* of the same
SmaData ==
    UNION {{Frame(Repeat(f.base, WarmLen) \o t) :
                t \in UNION {[1..k -> f.prices] : k \in 0..MaxTail}} : f \in Families}
    \cup {Frame(Repeat(Base, WarmLen + k)) : k \in 0..MaxTail}

\* series for a hand-written strategy: constant up to the first tick
UserData == {Frame(Repeat(Base, start) \o t) : t \in Tails(MaxUserTicks)}

\* series too short for the loop to run
ShortData == {Frame(t) : t \in Tails(MaxShort)}

\* defective variants of a frame: a null in one of the last rows, a column
\* of nulls only, a column absent, Volume present, rows out of order
Defects(d) ==
    LET n == len(d)
        rows == {r \in 1..n : r > n - 2}
    IN  {WithNull(d, c, r) : c \in OHLC, r \in rows}
        \cup {[d EXCEPT ![c] = Repeat(NaN, n)] : c \in OHLC}
        \cup {Without(d, c) : c \in OHLC}
        \cup {AddVolume(d)}
        \cup (IF n >= 2 THEN {Swapped(d)} ELSE {})

DefectiveData ==
    UNION {Defects(d) : d \in ShortData \cup
                        {Frame(Repeat(Base, start) \o <<Num(1), Num(4)>>)}}

Cashes == {Num(-1), Num(0), Num(3), NaN}
Commissions == {Rat(-1, 100), Zero, MaxCommission, Rat(3, 50), NaN}

Configs(types, brokers, cashes, commissions) ==
    [strategy_type : types, broker_type : brokers,
     cash : cashes, commission : commissions]

ValidConfigs(types) ==
    Configs(types, {"ExchangeAPI"}, {Num(3)}, {Zero, MaxCommission})

AllConfigs ==
    Configs(StrategyClasses \cup {"object"}, {"ExchangeAPI", "object"},
            Cashes, Commissions)

\* series for an exchange called directly: a bar to trade at and, at
\* most, one more to move to
ApiData == {Frame(t) : t \in Tails(2) \ {<<>>}}

\* the arguments of ExchangeAPI(data, cash, commission), called directly
ApiArguments ==
    ApiData
    \X Configs({"none"}, {"ExchangeAPI"}, Cashes \cup {Num(1)}, Commissions)

\* pairs of SmaCross backtests of one configuration whose series, of one
\* length, differ at most in the last MaxDiff rows
PairArguments ==
    UNION {{<<Frame(Repeat(f.base, WarmLen) \o t \o u),
              Frame(Repeat(f.base, WarmLen) \o t \o v), c>> :
                t \in [1..(PairTail - MaxDiff) -> f.prices],
                u \in [1..MaxDiff -> f.prices],
                v \in [1..MaxDiff -> f.prices],
                c \in ValidConfigs({"SmaCross"})} : f \in Families}

\* n values rising linearly from lo to hi (numpy.linspace(lo, hi, n))
Linear(lo, hi, n) ==
    [k \in 1..n |-> FAdd(Num(lo), Rat((hi - lo) * (k - 1), n - 1))]

\* the series whose Close rises linearly from 100 to 300, with cash 10000
\* and no commission
ScenarioData == {Frame(Linear(100, 300, ScenarioBars))}

ScenarioConfigs ==
    Configs({"SmaCross"}, {"ExchangeAPI"}, {Num(10000)}, {Zero})

\* commission rates from 0 to the ceiling
Rates == {Zero, Rat(1, 40), MaxCommission}

\* the pairs of rates c1 <= c2
RatePairs == {r \in Rates \X Rates : FLe(r[1], r[2])}

\* pairs of SmaCross backtests over one series and of one cash, the
\* commission of the second at least that of the first
CommissionArguments ==
    UNION {{<<Frame(Repeat(f.base, WarmLen) \o t),
              [strategy_type |-> "SmaCross", broker_type |-> "ExchangeAPI",
               cash |-> Num(3), commission |-> r[1]],
              [strategy_type |-> "SmaCross", broker_type |-> "ExchangeAPI",
               cash |-> Num(3), commission |-> r[2]]>> :
                t \in [1..MaxTail -> f.prices],
                r \in RatePairs} : f \in Families}

\* the arguments of Backtest(data, strategy_type, broker_type, cash, commission)
Arguments ==
    (SmaData \X ValidConfigs({"SmaCross"}))
    \cup (ScenarioData \X ScenarioConfigs)
    \cup (UserData \X ValidConfigs({"UserStrategy"}))
    \cup (DefectiveData \X ValidConfigs(StrategyClasses))
    \cup (ShortData \X AllConfigs)

-----------------------------------------------------------------------------
(* The state machine *)

World ==
    [data |-> data, cfg |-> cfg, broker |-> broker, strategy |-> strategy,
     pc |-> pc, tick |-> tick, results |-> results, hist |-> hist]

NewWorld(d, c) ==
    [data |-> d, cfg |-> c, broker |-> None, strategy |-> None,
     pc |-> "new", tick |-> 0, results |-> None, hist |-> NoHist]

Becomes(w) ==
    \E v \in {w} :
        /\ data' = v.data
        /\ cfg' = v.cfg
        /\ broker' = v.broker
        /\ strategy' = v.strategy
        /\ pc' = v.pc
        /\ tick' = v.tick
        /\ results' = v.results
        /\ hist' = v.hist

Starts(w) ==
    /\ data = w.data
    /\ cfg = w.cfg
    /\ broker = w.broker
    /\ strategy = w.strategy
    /\ pc = w.pc
    /\ tick = w.tick
    /\ results = w.results
    /\ hist = w.hist

Init ==
    /\ \E a \in Arguments : Starts(NewWorld(a[1], a[2]))
    /\ twin = None

\* Backtest(data, strategy_type, broker_type, cash, commission)
Construct ==
    /\ pc = "new"
    /\ Becomes(Backtest_init(World))
    /\ UNCHANGED twin

\* the lengths of the indicator a hand-written strategy computes
IndicatorLengths(d) == {n \in {len(d) - 1, len(d), len(d) + 1} : n >= 0}

\* run(): strategy.init()
RunInit ==
    /\ pc = "constructed"
    /\ \E n \in IndicatorLengths(data) : Becomes(run_init(World, Repeat(Zero, n)))
    /\ UNCHANGED twin

\* run(): broker.next(i)
Advance ==
    /\ pc = "loop"
    /\ tick < len(data)
    /\ Becomes(run_advance(World))
    /\ UNCHANGED twin

\* run(): strategy.next(i) of SmaCross
SmaCrossNext ==
    /\ pc = "in_next"
    /\ strategy.cls = "SmaCross"
    /\ Becomes(run_next_SmaCross(World))
    /\ UNCHANGED twin

\* strategy.next(i) of a hand-written strategy calls buy()
UserBuy ==
    /\ pc = "in_next"
    /\ strategy.cls = "UserStrategy"
    /\ hist.ntrades < MaxTrades
    /\ Becomes(do_buy(World))
    /\ UNCHANGED twin

\* strategy.next(i) of a hand-written strategy calls sell()
UserSell ==
    /\ pc = "in_next"
    /\ strategy.cls = "UserStrategy"
    /\ hist.ntrades < MaxTrades
    /\ Becomes(do_sell(World))
    /\ UNCHANGED twin

\* strategy.next(i) of a hand-written strategy returns
UserReturn ==
    /\ pc = "in_next"
    /\ strategy.cls = "UserStrategy"
    /\ Becomes(run_next_return(World))
    /\ UNCHANGED twin

\* run(): the loop is over, the result is computed and returned
Finish ==
    /\ pc = "loop"
    /\ tick >= len(data)
    /\ Becomes(run_finish(World))
    /\ UNCHANGED twin

Next ==
    \/ Construct
    \/ RunInit
    \/ Advance
    \/ SmaCrossNext
    \/ UserBuy
    \/ UserSell
    \/ UserReturn
    \/ Finish

Spec == Init /\ [][Next]_vars

-----------------------------------------------------------------------------
(* ExchangeAPI driven directly, in any order *)

\* ExchangeAPI(data, cash, commission)
api_init(w) ==
    LET b == ExchangeAPI_init(w.cfg.cash, w.cfg.commission)
    IN  IF raises(b) THEN Raise(w, "ExchangeAPI")
        ELSE [w EXCEPT !.broker = b, !.pc = "api", !.hist.op = "ExchangeAPI"]

\* broker.next(t)
api_next(w, t) == [w EXCEPT !.broker = next(w.broker, t), !.hist.op = "next"]

\* reading broker.market_value
api_market_value(w) ==
    [w EXCEPT !.results = [final |-> market_value(w.broker, w.data)],
              !.hist = [Queried(w.hist, w.broker.i) EXCEPT !.op = "market_value"]]

InitApi ==
    /\ \E a \in ApiArguments : Starts(NewWorld(a[1], a[2]))
    /\ twin = None

ApiConstruct ==
    /\ pc = "new"
    /\ Becomes(api_init(World))
    /\ UNCHANGED twin

ApiNext ==
    /\ pc = "api"
    /\ \E t \in 0..(len(data) - 1) : Becomes(api_next(World, t))
    /\ UNCHANGED twin

ApiBuy ==
    /\ pc = "api"
    /\ hist.ntrades < MaxTrades
    /\ Becomes(do_buy(World))
    /\ UNCHANGED twin

ApiSell ==
    /\ pc = "api"
    /\ hist.ntrades < MaxTrades
    /\ Becomes(do_sell(World))
    /\ UNCHANGED twin

ApiMarketValue ==
    /\ pc = "api"
    /\ Becomes(api_market_value(World))
    /\ UNCHANGED twin

NextApi ==
    \/ ApiConstruct
    \/ ApiNext
    \/ ApiBuy
    \/ ApiSell
    \/ ApiMarketValue

SpecApi == InitApi /\ [][NextApi]_vars

-----------------------------------------------------------------------------
(* Two SmaCross backtests side by side, step for step *)

InitPair ==
    \E a \in PairArguments :
        /\ Starts(NewWorld(a[1], a[3]))
        /\ twin = NewWorld(a[2], a[3])

PairConstruct ==
    /\ pc = "new"
    /\ twin.pc = "new"
    /\ Becomes(Backtest_init(World))
    /\ twin' = Backtest_init(twin)

PairRunInit ==
    /\ pc = "constructed"
    /\ twin.pc = "constructed"
    /\ Becomes(run_init(World, <<>>))
    /\ twin' = run_init(twin, <<>>)

PairAdvance ==
    /\ pc = "loop"
    /\ twin.pc = "loop"
    /\ tick < len(data)
    /\ twin.tick < len(twin.data)
    /\ Becomes(run_advance(World))
    /\ twin' = run_advance(twin)

PairSmaCrossNext ==
    /\ pc = "in_next"
    /\ twin.pc = "in_next"
    /\ Becomes(run_next_SmaCross(World))
    /\ twin' = run_next_SmaCross(twin)

PairFinish ==
    /\ pc = "loop"
    /\ twin.pc = "loop"
    /\ tick >= len(data)
    /\ twin.tick >= len(twin.data)
    /\ Becomes(run_finish(World))
    /\ twin' = run_finish(twin)

NextPair ==
    \/ PairConstruct
    \/ PairRunInit
    \/ PairAdvance
    \/ PairSmaCrossNext
    \/ PairFinish

SpecPair == InitPair /\ [][NextPair]_vars

\* two SmaCross backtests over the same series that differ in the commission
InitCommission ==
    \E a \in CommissionArguments :
        /\ Starts(NewWorld(a[1], a[2]))
        /\ twin = NewWorld(a[1], a[3])

SpecCommission == InitCommission /\ [][NextPair]_vars

-----------------------------------------------------------------------------
(* crossover called directly *)

\* series of two or more elements, null among them
SeriesArguments ==
    UNION {[1..n -> {Num(1), Num(2), Num(3), NaN}] : n \in 2..MaxSeriesLen}

InitCrossover ==
    /\ \E series1 \in SeriesArguments, series2 \in SeriesArguments :
           data = [series1 |-> series1, series2 |-> series2]
    /\ cfg = None
    /\ broker = None
    /\ strategy = None
    /\ pc = "args"
    /\ tick = 0
    /\ results = None
    /\ hist = NoHist
    /\ twin = None

\* crossover(series1, series2)
CallCrossover ==
    /\ pc = "args"
    /\ results' = [value |-> crossover(data.series1, data.series2)]
    /\ pc' = "returned"
    /\ hist' = [hist EXCEPT !.op = "crossover"]
    /\ UNCHANGED <<data, cfg, broker, strategy, tick, twin>>

NextCrossover == CallCrossover

SpecCrossover == InitCrossover /\ [][NextCrossover]_vars

-----------------------------------------------------------------------------
(* Claims *)

Constructed == broker.cls = "ExchangeAPI"

JustTraded == Constructed /\ hist.op \in {"buy", "sell"}

\* C1: buy() with cash == 0 is a silent no-op: whatever the position, it
\* leaves cash and position as they were.
C1_BuyWithoutCashIsNoOp ==
    [][(Constructed /\ hist'.op = "buy" /\ hist'.ntrades = hist.ntrades + 1
            /\ FEq(broker.cash, Zero))
        => (broker'.cash = broker.cash /\ broker'.position = broker.position)]_vars

\* C2: right after a buy() or sell(), cash > 0 and position > 0 do not both
\* hold.
C2_NeverPartlyInvested ==
    JustTraded => ~(FLt(Zero, broker.cash) /\ FLt(Zero, broker.position))

\* C2: a buy() has turned all the cash of an account into a position, and a
\* sell() a position into cash
C2_Witness ==
    /\ JustTraded
    /\ hist.ntrades >= 2
    /\ hist.op = "sell"
    /\ FLt(Zero, broker.cash)
    /\ broker.cash # broker.inital_cash

\* C3: right after a buy() or sell(), exactly one of cash == 0 and
\* position == 0 is true, also after repeated buys or repeated sells.
C3_ExactlyOneIsZero ==
    JustTraded => (FEq(broker.cash, Zero) # FEq(broker.position, Zero))

\* the calls a complete run over n bars makes, in order
ExpectedCalls(n) ==
    LET ticks == IF n > start THEN n - start ELSE 0
    IN  [k \in 1..(2 * ticks + 2) |->
            IF k = 1 THEN Call("init", -1)
            ELSE IF k = 2 * ticks + 2 THEN Call("_compute_result", -1)
            ELSE IF k % 2 = 0 THEN Call("broker.next", start + (k - 2) \div 2)
            ELSE Call("strategy.next", start + (k - 3) \div 2)]

\* C4: run() calls strategy.init() once, first; then, for each tick of
\* [start, N) in ascending order, broker.next(tick) and then
\* strategy.next(tick), once each; and computes the result once, after the
\* last strategy.next has returned.  The calls made so far are always the
\* beginning of that sequence, and all of it when run() returns.
C4_CallOrder ==
    LET expected == ExpectedCalls(len(data))
    IN  /\ Len(hist.calls) <= Len(expected)
        /\ hist.calls = SubSeq(expected, 1, Len(hist.calls))
        /\ pc = "done" => hist.calls = expected
        /\ pc = "in_next" =>
               hist.calls[Len(hist.calls)] = Call("broker.next", tick)

\* C4: a run over at least two ticks has returned
C4_Witness == pc = "done" /\ Len(hist.calls) >= 6

Cursor == IF Constructed THEN broker.i ELSE 0

\* C5 as claimed, for every length N: the cursor never decreases, no price
\* is read at a cursor before start, and the result is computed with the
\* cursor at N - 1.
C5_CursorFromStartToEnd ==
    [][/\ Cursor' >= Cursor
       /\ hist'.first_query \in {-1} \cup start..(len(data') - 1)
       /\ pc' = "done" => Cursor' = len(data') - 1]_vars

\* C5 as amended: the cursor never decreases; when N > start, no price is
\* read at a cursor before start and the result is computed with the cursor
\* at N - 1; when N <= start, the cursor stays 0 and the result is computed
\* there.
C5_CursorAmended ==
    [][/\ Cursor' >= Cursor
       /\ len(data') > start =>
            /\ hist'.first_query \in {-1} \cup start..(len(data') - 1)
            /\ pc' = "done" => Cursor' = len(data') - 1
       /\ len(data') <= start =>
            /\ hist'.first_query \in {-1, 0}
            /\ Cursor' = 0]_vars

\* C5: a run over several ticks has returned with the cursor on the last bar
C5_Witness ==
    /\ pc = "done"
    /\ len(data) > start + 1
    /\ Cursor = len(data) - 1
    /\ hist.first_query \in start..(len(data) - 2)

\* the Close series of the two backtests agree on the bars 0..t
Agree(t) ==
    \A k \in 1..(t + 1) :
        k <= Len(data.Close) => data.Close[k] = twin.data.Close[k]

\* C6: no look-ahead.  Of two SmaCross backtests of the same cash,
\* commission and windows over series of one length, when the series agree
\* on the bars 0..t, the decisions at all ticks up to t are the same and cash
\* and position after tick t are the same.
C6_NoLookAhead ==
    (pc \in {"loop", "in_next", "done"} /\ Agree(tick - 1))
        => /\ twin.tick = tick
           /\ hist.decisions = twin.hist.decisions
           /\ broker.cash = twin.broker.cash
           /\ broker.position = twin.broker.position

\* C6: two series that agree up to a tick of the loop and differ after it,
\* with a trade made up to that tick
C6_Witness ==
    /\ pc = "loop"
    /\ tick - 1 >= start
    /\ Agree(tick - 1)
    /\ ~Agree(tick)
    /\ hist.ntrades > 0

NoNull(col) == \A k \in 1..Len(col) : ~isnull(col[k])

\* C7: when no buy() or sell() was called during a run over a price series
\* (Close non-null), the final market value is the initial cash exactly and
\* the profit is 0.
C7_NoTradeNoChange ==
    (pc = "done" /\ hist.ntrades = 0 /\ NoNull(data.Close))
        => /\ results.final = broker.inital_cash
           /\ results.final = cfg.cash
           /\ results.initial = cfg.cash
           /\ results.profit = Zero

\* C7: a run over ticks of changing price has returned without a trade
C7_Witness ==
    /\ pc = "done"
    /\ hist.ntrades = 0
    /\ len(data) > start + 1
    /\ data.Close[len(data)] # data.Close[1]
    /\ results.profit = Zero

HasNullRow(d) ==
    \E c \in OHLC \cap DOMAIN d : \E r \in 1..Len(d[c]) : isnull(d[c][r])

\* C8: a data set with a null Open, High, Low or Close in some row is
\* rejected at construction: no exchange and no strategy is constructed.
C8_NullRowsRejected ==
    (pc # "new" /\ HasNullRow(data))
        => pc = "raised" /\ broker = None /\ strategy = None

ValidConfig ==
    /\ FLt(Zero, cfg.cash)
    /\ FLe(Zero, cfg.commission)
    /\ FLe(cfg.commission, Rat(5, 100))

\* every check of Backtest.__init__ before the exchange is constructed passes
ReachesExchange ==
    /\ cfg.strategy_type \in StrategyClasses
    /\ cfg.broker_type = "ExchangeAPI"
    /\ OHLC \subseteq DOMAIN data
    /\ \A c \in OHLC : \E r \in 1..Len(data[c]) : ~isnull(data[c][r])

\* C9: the exchange is constructed iff cash > 0 and 0 <= commission <= 0.05;
\* otherwise construction raises, the Backtest is not constructed, and no
\* strategy.init, next, buy or sell is executed.
C9_ConfigValidated ==
    pc # "new" =>
        /\ Constructed => ValidConfig
        /\ (ValidConfig /\ ReachesExchange) => Constructed
        /\ ~ValidConfig =>
               /\ pc = "raised"
               /\ broker = None
               /\ strategy = None
               /\ hist.calls = <<>>
               /\ hist.ntrades = 0

\* C9: construction has raised for a commission just above the ceiling, and
\* for nothing else
C9_Witness ==
    /\ pc = "raised"
    /\ ReachesExchange
    /\ FLt(Zero, cfg.cash)
    /\ cfg.commission = Rat(3, 50)

WrongLength == \E k \in 1..Len(hist.ilens) : hist.ilens[k] # Len(data.Close)

\* C10: when an indicator passed through Strategy.I in init() has a length
\* other than that of the price series, I raises, the indicator is not
\* registered, run() makes no broker.next or strategy.next call, the account
\* is as constructed and no result is produced.
C10_ShapeMismatchAborts ==
    WrongLength =>
        /\ pc = "raised"
        /\ strategy.indicators = <<>>
        /\ hist.calls = <<Call("init", -1)>>
        /\ hist.ntrades = 0
        /\ broker.cash = cfg.cash
        /\ broker.position = Zero
        /\ broker.i = 0
        /\ results = None

\* C10: init() of a strategy over a series long enough for the loop has
\* raised on an indicator one element short
C10_Witness ==
    /\ pc = "raised"
    /\ len(data) > start
    /\ hist.ilens = <<len(data) - 1>>

\* how many times x occurs in seq
Count(seq, x) == Cardinality({k \in DOMAIN seq : seq[k] = x})

\* the run over the series rising linearly from 100 to 300, with cash
\* 10000 and no commission
Scenario ==
    /\ cfg.strategy_type = "SmaCross"
    /\ cfg.cash = Num(10000)
    /\ cfg.commission = Zero
    /\ len(data) = ScenarioBars
    /\ data.Close[1] = Num(100)
    /\ data.Close[len(data)] = Num(300)
    /\ \A k \in 2..(len(data) - 1) :
           FSub(data.Close[k + 1], data.Close[k]) = FSub(data.Close[k], data.Close[k - 1])

\* C11 as claimed: the run over the linearly rising series executes exactly
\* one buy and no sell, and its final market value is strictly greater than
\* the initial one.
C11_OneBuyAndGain ==
    (Scenario /\ pc = "done")
        => /\ Count(hist.decisions, "buy") = 1
           /\ Count(hist.decisions, "sell") = 0
           /\ FLt(results.initial, results.final)

\* C11 as amended: the run over the linearly rising series executes no buy
\* and no sell at any tick, and its final market value equals the initial
\* one, 10000.
C11_NoCrossNoTrade ==
    Scenario
        => /\ Count(hist.decisions, "buy") = 0
           /\ Count(hist.decisions, "sell") = 0
           /\ hist.ntrades = 0
           /\ pc = "done" =>
                /\ results.initial = Num(10000)
                /\ results.final = Num(10000)
                /\ results.profit = Zero

\* C11: the run over the linearly rising series has returned, after a
\* decision at every tick from start to the last bar, with the fast
\* average above the slow one at the end
C11_Witness ==
    /\ Scenario
    /\ pc = "done"
    /\ Len(hist.decisions) = ScenarioBars - start
    /\ FLt(strategy.sma2[ScenarioBars], strategy.sma1[ScenarioBars])
    /\ FLt(data.Close[start], data.Close[ScenarioBars])

\* C12: commission monotonicity.  Of two SmaCross runs over the same price
\* path, with the same cash and windows and commissions c1 <= c2 in
\* [0, 0.05], the final market value of the run with c2 is less than or
\* equal to that of the run with c1.
C12_CommissionMonotone ==
    (/\ pc = "done"
     /\ twin.pc = "done"
     /\ data = twin.data
     /\ cfg.cash = twin.cfg.cash
     /\ FLe(Zero, cfg.commission)
     /\ FLe(cfg.commission, twin.cfg.commission)
     /\ FLe(twin.cfg.commission, Rat(5, 100)))
        => FLe(twin.results.final, results.final)

\* C12: two runs of different commission have bought, sold and bought
\* again, and the one of the higher commission has ended with strictly less
C12_Witness ==
    /\ pc = "done"
    /\ twin.pc = "done"
    /\ FLt(cfg.commission, twin.cfg.commission)
    /\ Count(hist.decisions, "buy") >= 2
    /\ Count(hist.decisions, "sell") >= 1
    /\ FLt(twin.results.final, results.final)

\* x < y of two floats, by cross-multiplication; false when either is null
Below(x, y) == x[2] # 0 /\ y[2] # 0 /\ x[1] * y[2] < y[1] * x[2]

\* x[-k]
FromEnd(x, k) == x[Len(x) + 1 - k]

\* C13: crossover(A, B) on series of two or more elements returns true iff
\* A[-2] < B[-2] and A[-1] > B[-1], both strict: equality at either of the
\* two trailing positions yields false.  crossover([1,2],[3,1]) is true and
\* crossover([1,2],[2,3]) is false.
C13_CrossoverStrict ==
    pc = "returned" =>
        LET A == data.series1
            B == data.series2
        IN  /\ results.value \in BOOLEAN
            /\ results.value <=> (/\ Below(FromEnd(A, 2), FromEnd(B, 2))
                                  /\ Below(FromEnd(B, 1), FromEnd(A, 1)))
            /\ (FromEnd(A, 2) = FromEnd(B, 2) \/ FromEnd(A, 1) = FromEnd(B, 1))
                    => results.value = FALSE
            /\ (A = <<Num(1), Num(2)>> /\ B = <<Num(3), Num(1)>>)
                    => results.value = TRUE
            /\ (A = <<Num(1), Num(2)>> /\ B = <<Num(2), Num(3)>>)
                    => results.value = FALSE

\* C13: crossover([1,2],[3,1]) has returned true
C13_Witness ==
    /\ pc = "returned"
    /\ hist.op = "crossover"
    /\ data.series1 = <<Num(1), Num(2)>>
    /\ data.series2 = <<Num(3), Num(1)>>
    /\ results.value = TRUE

\* the step is a call of op, "buy" or "sell"
Trades(op) ==
    /\ Constructed
    /\ hist'.ntrades = hist.ntrades + 1
    /\ hist'.op = op

\* C14: sell() called when position == 0 is a silent no-op: it leaves cash
\* and position as they were and raises no error.
C14_SellWithoutPositionIsNoOp ==
    [][(Trades("sell") /\ FEq(broker.position, Zero))
        => /\ broker'.cash = broker.cash
           /\ broker'.position = broker.position
           /\ pc' = pc]_vars

\* C14: sell() has been called on an account that holds cash and no
\* position: once on the account as constructed, and once more after that
C14_Witness ==
    /\ Constructed
    /\ hist.op = "sell"
    /\ hist.ntrades = 2
    /\ \A k \in 1..2 : hist.trades[k].op = "sell" /\ hist.trades[k].position = Zero
    /\ broker.cash = cfg.cash
    /\ FLt(Zero, broker.cash)
    /\ broker.position = Zero

\* the step is SmaCross.next(tick), from its call to its return
SmaCrossSteps ==
    /\ pc = "in_next"
    /\ strategy.cls = "SmaCross"
    /\ pc' = "loop"

\* the fast average crosses above the slow one between the indices tick - 2
\* and tick - 1 (the elements tick - 1 and tick of the sequences)
CrossesUp ==
    /\ Below(strategy.sma1[tick - 1], strategy.sma2[tick - 1])
    /\ Below(strategy.sma2[tick], strategy.sma1[tick])

\* the slow average crosses above the fast one between the same indices
CrossesDown ==
    /\ Below(strategy.sma2[tick - 1], strategy.sma1[tick - 1])
    /\ Below(strategy.sma1[tick], strategy.sma2[tick])

\* C15: SmaCross.next(tick) decides from the averages at the indices
\* tick - 2 and tick - 1 only: it calls buy() iff fast[tick-2] < slow[tick-2]
\* and fast[tick-1] > slow[tick-1]; otherwise sell() iff slow[tick-2] <
\* fast[tick-2] and slow[tick-1] > fast[tick-1]; otherwise it makes no call.
\* At most one of buy() and sell() is called per tick, and the order fills
\* at Close[tick].
C15_DecidesOnTwoBarsBefore ==
    [][SmaCrossSteps =>
        LET a == IF CrossesUp THEN "buy"
                 ELSE IF CrossesDown THEN "sell" ELSE "none"
            price == data.Close[tick + 1]
            net == FSub(One, broker.commission)
            call == [op |-> a, i |-> tick,
                     cash |-> broker.cash, position |-> broker.position]
        IN  /\ hist'.decisions = Append(hist.decisions, a)
            /\ hist'.trades = IF a = "none" THEN hist.trades
                              ELSE Append(hist.trades, call)
            /\ hist'.ntrades <= hist.ntrades + 1
            /\ a = "buy" =>
                   /\ FMul(broker'.position, price) = FMul(broker.cash, net)
                   /\ broker'.cash = Zero
            /\ a = "sell" =>
                   /\ broker'.cash =
                          FAdd(broker.cash, FMul(broker.position, FMul(price, net)))
                   /\ broker'.position = Zero
            /\ a = "none" => broker' = broker]_vars

\* C15: SmaCross.next has bought at one tick and sold at a later one, at a
\* price other than the one it bought at
C15_Witness ==
    /\ strategy.cls = "SmaCross"
    /\ pc = "loop"
    /\ hist.op = "sell"
    /\ Len(hist.trades) = 2
    /\ hist.trades[1].op = "buy"
    /\ hist.trades[2].op = "sell"
    /\ hist.trades[1].i < hist.trades[2].i
    /\ data.Close[hist.trades[1].i + 1] # data.Close[hist.trades[2].i + 1]

\* the step makes the call f of Backtest.run
Calls(f) ==
    /\ Len(hist'.calls) = Len(hist.calls) + 1
    /\ hist'.calls[Len(hist'.calls)].f = f

\* C16: frame.  broker.next(tick) changes only the cursor and leaves cash,
\* position and initial cash as they were; computing the result (which
\* reads market_value and current_price) changes nothing of the exchange;
\* cash and position change only inside buy() and sell(); the cursor changes
\* only inside next(); the initial cash and the commission never change
\* after construction.
C16_Frame ==
    [][(Constructed /\ Constructed') =>
        /\ broker'.inital_cash = broker.inital_cash
        /\ broker'.inital_cash = cfg.cash
        /\ broker'.commission = broker.commission
        /\ Calls("broker.next") =>
               /\ broker' = [broker EXCEPT !.i = tick]
               /\ hist'.trades = hist.trades
        /\ Calls("_compute_result") => broker' = broker
        /\ Calls("init") => broker' = broker
        /\ (broker'.cash # broker.cash \/ broker'.position # broker.position)
               => /\ hist'.op \in {"buy", "sell"}
                  /\ hist'.ntrades = hist.ntrades + 1
                  /\ broker'.i = broker.i
        /\ broker'.i # broker.i => Calls("broker.next")]_vars

\* C16: a run in which the strategy bought has returned its result, the
\* cursor advanced over several ticks, the account no longer as constructed
C16_Witness ==
    /\ pc = "done"
    /\ hist.ntrades > 0
    /\ broker.i > start
    /\ broker.position # Zero
    /\ broker.cash # broker.inital_cash
    /\ broker.inital_cash = cfg.cash
    /\ results.initial = cfg.cash

\* the account the k-th trade was called on holds cash only
AllCash(k) ==
    /\ FLt(Zero, hist.trades[k].cash)
    /\ hist.trades[k].position = Zero

\* the last trade is a sell() that follows a buy() on an all-cash account
\* at the same tick, with no trade between them
RoundTrip ==
    LET n == Len(hist.trades)
    IN  /\ n >= 2
        /\ hist.trades[n].op = "sell"
        /\ hist.trades[n - 1].op = "buy"
        /\ hist.trades[n].i = hist.trades[n - 1].i
        /\ AllCash(n - 1)

\* C17: from an all-cash account (cash = C > 0, position = 0) at a tick of
\* price p > 0, with commission c, buy() yields position = C * (1 - c) / p
\* and cash = 0, of market value C * (1 - c); a sell() following it at the
\* same tick yields position = 0 and cash = C * (1 - c)^2.
C17_RoundTrip ==
    LET n == Len(hist.trades)
        net == FSub(One, broker.commission)
    IN  (Constructed /\ hist.op \in {"buy", "sell"}) =>
          /\ (hist.op = "buy" /\ AllCash(n)) =>
                LET C == hist.trades[n].cash
                    p == data.Close[hist.trades[n].i + 1]
                IN  /\ FMul(broker.position, p) = FMul(C, net)
                    /\ broker.position = FDiv(FMul(C, net), p)
                    /\ broker.cash = Zero
                    /\ market_value(broker, data) = FMul(C, net)
          /\ (hist.op = "sell" /\ RoundTrip) =>
                LET C == hist.trades[n - 1].cash
                IN  /\ broker.position = Zero
                    /\ broker.cash = FMul(C, FMul(net, net))

\* C17: with commission 0.05, an all-cash account has bought and then sold
\* at one tick after the first, and is left with 361/400 of its cash
C17_Witness ==
    /\ Constructed
    /\ hist.op = "sell"
    /\ RoundTrip
    /\ broker.commission = MaxCommission
    /\ broker.i > 0
    /\ data.Close[broker.i + 1] # One
    /\ FMul(broker.cash, Num(400)) = FMul(hist.trades[Len(hist.trades) - 1].cash, Num(361))

\* C18: for an exchange constructed with a valid configuration over
\* strictly positive prices, cash >= 0 and position >= 0 hold in every
\* state reached by calls of next, buy and sell.
C18_NoShortNoDebt ==
    (Constructed /\ \A k \in 1..len(data) : FLt(Zero, data.Close[k]))
        => /\ FLe(Zero, broker.cash)
           /\ FLe(Zero, broker.position)

\* C18: an account has sold, bought at one price and moved on to another
\* price, holding a positive position and no cash
C18_Witness ==
    /\ Constructed
    /\ hist.op = "next"
    /\ Len(hist.trades) >= 2
    /\ hist.trades[Len(hist.trades)].op = "buy"
    /\ hist.trades[Len(hist.trades)].i # broker.i
    /\ FLt(Zero, broker.position)
    /\ broker.cash = Zero
    /\ FLt(Zero, broker.commission)

\* the k-th trade is a buy() on an account that holds a position and no cash
BuysHeld(k) ==
    /\ hist.trades[k].op = "buy"
    /\ FLt(Zero, hist.trades[k].position)
    /\ FEq(hist.trades[k].cash, Zero)

\* C19 as claimed: in a SmaCross run buy() is never invoked while the
\* account holds a position, and between any two ticks at which SmaCross
\* buys there is a tick at which it sells.
C19_BuysAlternate ==
    strategy.cls = "SmaCross" =>
        /\ \A k \in 1..Len(hist.trades) : ~BuysHeld(k)
        /\ \A a, b \in 1..Len(hist.decisions) :
               (a < b /\ hist.decisions[a] = "buy" /\ hist.decisions[b] = "buy")
                   => \E k \in (a + 1)..(b - 1) : hist.decisions[k] = "sell"

\* at some index after the one that made SmaCross buy at tick t1 and before
\* the two that make it decide at tick t2, the averages are equal or one of
\* them is null
Touch(t1, t2) ==
    \E j \in (t1 + 1)..(t2 - 2) :
        /\ ~Below(strategy.sma1[j], strategy.sma2[j])
        /\ ~Below(strategy.sma2[j], strategy.sma1[j])

\* C19 as amended: between two ticks at which SmaCross buys there is a tick
\* at which it sells, or an index at which the fast and the slow average
\* are equal (or not comparable, one being null); buy() is invoked on an
\* account that holds a position only in the second case, at the second of
\* two such buys.
C19_BuysAlternateUnlessEqual ==
    strategy.cls = "SmaCross" =>
        /\ \A k \in 2..Len(hist.trades) :
               (hist.trades[k].op = "buy" /\ hist.trades[k - 1].op = "buy")
                   => Touch(hist.trades[k - 1].i, hist.trades[k].i)
        /\ \A k \in 1..Len(hist.trades) :
               BuysHeld(k) => (k > 1 /\ hist.trades[k - 1].op = "buy")

\* C19: SmaCross has bought a second time with no sell since the first,
\* on an account that held a position
C19_Witness ==
    /\ strategy.cls = "SmaCross"
    /\ \E k \in 2..Len(hist.trades) : BuysHeld(k)
    /\ Count(hist.decisions, "sell") = 0
    /\ broker.position = Zero
    /\ broker.cash = Zero

====
